---- MODULE Spec2Model ----
(***************************************************************************)
(* A model of pymotiva (src/pymotiva/__init__.py): the notification        *)
(* multiplexer EmotivaNotifier (register / run), the device session        *)
(* Emotiva (__init__, _send_request, _notify_handler), the discovery       *)
(* client Emotiva.discover and the decoder Emotiva._parse_response.        *)
(***************************************************************************)
EXTENDS Integers, Sequences, FiniteSets, TLC

(***************************************************************************)
(* Bounds of the model.                                                    *)
(***************************************************************************)
MaxEvents == 4      \* register calls made plus datagrams arriving on the
                    \* notify sockets, over a behaviour
MaxRecvErrors == 1  \* recvfrom failures the environment injects
MaxReplies == 2     \* datagrams the peer sends to the control socket
MaxDiscovered == 2  \* datagrams arriving on the discovery response socket
MaxRequests == 1    \* _send_request calls made after connect
MaxCommands == 2    \* commands in a request handed to format_request

Addrs == {"ipA", "ipB"}
Ports == {7002, 7003}
Callbacks == {"cb1", "cb2"}
Threads == {"t1", "t2"}
NoThread == "none"

\* the thread EmotivaNotifier starts for run (line 33); the threads that can
\* be inside register are the callers and, through a callback, this one
DispatchThread == "run"
Callers == Threads \cup {DispatchThread}

(***************************************************************************)
(* Payloads.  A datagram is a sequence of tokens: a newline, a blank, a    *)
(* byte that is not valid UTF-8, the XML declaration, character data, or a *)
(* tag (opening, closing, or empty-element) with its attributes.  The      *)
(* attributes of a tag are written in it one after the other, each a name  *)
(* and a value; a value is a sequence of pieces, a piece being one of the  *)
(* characters below, an entity, or a run of ordinary characters.           *)
(***************************************************************************)
EmptyMap == [x \in {} |-> x]
NL == [k |-> "nl"]
SP == [k |-> "sp"]
BadByte == [k |-> "xFF"]
Text == [k |-> "txt"]
Open(tag, attrs) == [k |-> "open", tag |-> tag, attrs |-> attrs]
Close(tag) == [k |-> "close", tag |-> tag]
Empty(tag, attrs) == [k |-> "empty", tag |-> tag, attrs |-> attrs]

\* line 63: XML_HEADER
XML_HEADER == [k |-> "decl"]

GoodFlat == <<Open("a", EmptyMap), Empty("c", EmptyMap), Close("a")>>
GoodPadded ==
  <<Open("a", EmptyMap), NL, SP, Empty("b", EmptyMap), SP, NL, Close("a"), NL>>
BadUnclosed == <<Open("a", EmptyMap), NL, SP, Empty("b", EmptyMap)>>
BadBytes == <<Open("a", EmptyMap), BadByte, Close("a")>>

\* data.decode('utf-8'): fails on a byte sequence that is not UTF-8
Utf8Decode(data) ==
  IF \E i \in 1..Len(data) : data[i] = BadByte
  THEN [ok |-> FALSE, text |-> <<>>]
  ELSE [ok |-> TRUE, text |-> data]

\* str.split('\n'): the sequence of lines, the separators removed
RECURSIVE SplitLines(_, _, _)
SplitLines(s, cur, acc) ==
  IF s = <<>> THEN Append(acc, cur)
  ELSE IF Head(s) = NL THEN SplitLines(Tail(s), <<>>, Append(acc, cur))
  ELSE SplitLines(Tail(s), Append(cur, Head(s)), acc)

\* str.strip(): leading and trailing blanks removed, inner ones kept
RECURSIVE LStrip(_)
LStrip(s) == IF s # <<>> /\ Head(s) = SP THEN LStrip(Tail(s)) ELSE s

RECURSIVE RStrip(_)
RStrip(s) ==
  IF s # <<>> /\ s[Len(s)] = SP THEN RStrip(SubSeq(s, 1, Len(s) - 1))
  ELSE s

Strip(s) == RStrip(LStrip(s))

\* ''.join(...)
RECURSIVE Join(_)
Join(lines) == IF lines = <<>> THEN <<>> ELSE Head(lines) \o Join(Tail(lines))

StripAll(lines) == [i \in 1..Len(lines) |-> Strip(lines[i])]

\* the characters of a value that XML treats specially, a control character
\* XML 1.0 cannot carry at all, and the references ET.tostring writes
Lt == "<"
Gt == ">"
Amp == "&"
Quot == "quote"
Lf == "newline"
Nul == "x00"
Entity ==
  (Amp :> "&amp;") @@ (Lt :> "&lt;") @@ (Gt :> "&gt;") @@ (Quot :> "&quot;")
  @@ (Lf :> "&#10;")

\* lines 157-158 inside a tag: split('\n') cuts the text at a raw newline
\* wherever it stands and join puts the pieces back without it (the values
\* modelled hold no blank next to a newline for strip to remove)
CutLines(value) == SelectSeq(value, LAMBDA c : c # Lf)

CutAttrs(attrs) ==
  [j \in DOMAIN attrs |-> [name |-> attrs[j].name,
                           value |-> CutLines(attrs[j].value)]]

CutInside(text) ==
  [i \in 1..Len(text) |->
     IF text[i].k \in {"open", "empty"}
     THEN [text[i] EXCEPT !.attrs = CutAttrs(text[i].attrs)]
     ELSE text[i]]

\* expat on the attributes of a tag: a name may appear once, and a value may
\* not hold a raw "<", "&", quote or control character
AttribsWellFormed(s) ==
  \A i \in 1..Len(s) :
    s[i].k \in {"open", "empty"} =>
      /\ \A j, l \in DOMAIN s[i].attrs :
           s[i].attrs[j].name = s[i].attrs[l].name => j = l
      /\ \A j \in DOMAIN s[i].attrs :
           \A n \in 1..Len(s[i].attrs[j].value) :
             s[i].attrs[j].value[n] \notin {Lt, Amp, Quot, Nul}

\* expat resolves the references in a value
UnescapeAttrib(value) ==
  [n \in 1..Len(value) |->
     IF \E c \in DOMAIN Entity : Entity[c] = value[n]
     THEN CHOOSE c \in DOMAIN Entity : Entity[c] = value[n]
     ELSE value[n]]

\* Element.attrib of a tag: name -> value
Attrib(tok) ==
  [name \in {tok.attrs[j].name : j \in DOMAIN tok.attrs} |->
     UnescapeAttrib(tok.attrs[CHOOSE j \in DOMAIN tok.attrs :
                                tok.attrs[j].name = name].value)]

\* the elements directly under the root, in document order; depth is the
\* number of elements open at the head of s
RECURSIVE Children(_, _)
Children(s, depth) ==
  IF s = <<>> THEN <<>>
  ELSE LET tok == Head(s)
           here == IF depth = 1
                   THEN <<[tag |-> tok.tag, attrib |-> Attrib(tok)]>>
                   ELSE <<>>
       IN IF tok.k = "open" THEN here \o Children(Tail(s), depth + 1)
          ELSE IF tok.k = "close" THEN Children(Tail(s), depth - 1)
          ELSE IF tok.k = "empty" THEN here \o Children(Tail(s), depth)
          ELSE Children(Tail(s), depth)

NoTree == [tag |-> "", attrib |-> EmptyMap, children |-> <<>>]

\* the Element ET.fromstring returns for a well-formed document: the root's
\* tag and attributes and its child elements
Root(s) ==
  LET body == IF Head(s) = XML_HEADER THEN Tail(s) ELSE s IN
  [tag |-> Head(body).tag,
   attrib |-> Attrib(Head(body)),
   children |-> Children(Tail(body), IF Head(body).k = "open" THEN 1 ELSE 0)]

\* ET.fromstring: the document is well formed when it is one root element,
\* optionally after an XML declaration, with balanced tags and no character
\* data outside the root.  stack holds the tags that are open, roots counts
\* the top-level elements closed so far.
RECURSIVE WellFormed(_, _, _)
WellFormed(s, stack, roots) ==
  IF s = <<>> THEN stack = <<>> /\ roots = 1
  ELSE LET tok == Head(s) IN
    IF tok.k = "open" THEN
      IF stack = <<>> /\ roots >= 1 THEN FALSE
      ELSE WellFormed(Tail(s), <<tok.tag>> \o stack, roots)
    ELSE IF tok.k = "close" THEN
      IF stack = <<>> \/ Head(stack) # tok.tag THEN FALSE
      ELSE WellFormed(Tail(s), Tail(stack),
                      IF Len(stack) = 1 THEN roots + 1 ELSE roots)
    ELSE IF tok.k = "empty" THEN
      IF stack = <<>> /\ roots >= 1 THEN FALSE
      ELSE WellFormed(Tail(s), stack, IF stack = <<>> THEN roots + 1 ELSE roots)
    ELSE IF tok.k = "sp" THEN WellFormed(Tail(s), stack, roots)
    ELSE IF tok.k = "txt" THEN stack # <<>> /\ WellFormed(Tail(s), stack, roots)
    ELSE FALSE

FromString(s) ==
  /\ AttribsWellFormed(s)
  /\ IF s # <<>> /\ Head(s) = XML_HEADER THEN WellFormed(Tail(s), <<>>, 0)
     ELSE WellFormed(s, <<>>, 0)

\* Emotiva._parse_response: the error raised, or "none" with the joined
\* document and the root element parsed from it
ParseResponse(data) ==
  LET dec == Utf8Decode(data) IN
  IF ~dec.ok
  THEN [err |-> "UnicodeDecodeError", doc |-> <<>>, root |-> NoTree]
  ELSE LET joined ==
             Join(StripAll(SplitLines(CutInside(dec.text), <<>>, <<>>)))
       IN IF FromString(joined)
          THEN [err |-> "none", doc |-> joined, root |-> Root(joined)]
          ELSE [err |-> "ParseError", doc |-> <<>>, root |-> NoTree]


(***************************************************************************)
(* State.                                                                  *)
(***************************************************************************)
VARIABLES
  devs,           \* EmotivaNotifier._devs: address -> callback
  socks_by_port,  \* EmotivaNotifier._socks_by_port: port -> socket
  socks_by_fileno,
                  \* EmotivaNotifier._socks_by_fileno: descriptor -> socket
  epoll,          \* descriptors registered with EmotivaNotifier._epoll
  lock,           \* holder of EmotivaNotifier._lock, or NoThread
  rpc,            \* position of each thread inside register
  rargs,          \* (ip, port, callback) of each thread's register call
  rerr,           \* error the register call that ended last raised
  disp,           \* the dispatch thread: position and locals of run
  sockbuf,        \* descriptor -> datagrams queued in the socket, oldest first
  calls,          \* history: the (callback, source address) pairs run invoked
  firstReg,       \* history: address -> callback of the first register call
                  \* for it that reached line 44
  installs,       \* history: address -> number of writes to _devs[address]
  rereg,          \* history: addresses a later register call named with a
                  \* callback other than the first one
  bound,          \* history: sockets created and bound by register
  nevents,        \* register calls made plus datagrams that arrived
  nrecverrs       \* recvfrom failures injected

muxVars ==
  <<devs, socks_by_port, socks_by_fileno, epoll, lock, rpc, rargs, rerr, disp,
    sockbuf, calls, firstReg, installs, rereg, bound, nevents, nrecverrs>>

NoArgs == [ip |-> "", port |-> 0, cb |-> ""]
NoSock == [fileno |-> 0, port |-> 0]

\* the dispatch thread before its first poll (line 49)
DispIdle ==
  [pc |-> "poll", events |-> <<>>, sock |-> NoSock, data |-> <<>>, ip |-> "",
   cb |-> "", err |-> "none"]

\* EmotivaNotifier.__init__: empty registries, free lock, thread started
MuxInit ==
  /\ devs = EmptyMap
  /\ socks_by_port = EmptyMap
  /\ socks_by_fileno = EmptyMap
  /\ epoll = {}
  /\ lock = NoThread
  /\ rpc = [t \in Callers |-> "idle"]
  /\ rargs = [t \in Callers |-> NoArgs]
  /\ rerr = "none"
  /\ disp = DispIdle
  /\ sockbuf = EmptyMap
  /\ calls = {}
  /\ firstReg = EmptyMap
  /\ installs = [a \in Addrs |-> 0]
  /\ rereg = {}
  /\ bound = {}
  /\ nevents = 0
  /\ nrecverrs = 0

MapPut(m, k, v) == [x \in (DOMAIN m) \cup {k} |-> IF x = k THEN v ELSE m[x]]

(***************************************************************************)
(* EmotivaNotifier.register                                                *)
(***************************************************************************)
\* a register that makes a socket for every call
PortMissingAlways(port) == TRUE

\* line 37: port not in self._socks_by_port
PortMissing(port) == port \notin DOMAIN socks_by_port

\* a registration that overwrites: the last one wins
DevMissingAlways(ip) == TRUE

\* line 44: ip not in self._devs
DevMissing(ip) == ip \notin DOMAIN devs

\* socket.socket(): the descriptor the OS hands out, the lowest one unused
NewFileno ==
  CHOOSE fd \in 1..(Cardinality(DOMAIN sockbuf) + 1) :
    /\ fd \notin DOMAIN sockbuf
    /\ \A g \in 1..(fd - 1) : g \in DOMAIN sockbuf

\* a lock that excludes nobody
CanAcquireUnlocked(t) == TRUE

\* threading.Lock: with self._lock blocks until no thread holds the lock
CanAcquire(t) == lock = NoThread

\* lines 36-37: the call is made, the lock acquired and the port registry
\* tested
RegisterEnter(t, ip, port, cb) ==
  /\ rpc[t] = "idle"
  /\ nevents < MaxEvents
  /\ CanAcquire(t)
  /\ lock' = t
  /\ rpc' = [rpc EXCEPT ![t] = IF PortMissing(port) THEN "bind" ELSE "dev"]
  /\ rargs' = [rargs EXCEPT ![t] = [ip |-> ip, port |-> port, cb |-> cb]]
  /\ nevents' = nevents + 1
  /\ UNCHANGED <<devs, socks_by_port, socks_by_fileno, epoll, rerr, disp,
                 sockbuf, calls, firstReg, installs, rereg, bound, nrecverrs>>

\* the positions of register at which the caller holds the lock
UnderLock == {"bind", "byFileno", "epoll", "dev"}

\* lines 38-41 when socket() and bind() succeed: the socket exists, is bound
\* (datagrams for the port queue in it from now on) and is entered in the
\* port registry
RegisterNewSocket(t) ==
  /\ rpc[t] = "bind"
  /\ LET sock == [fileno |-> NewFileno, port |-> rargs[t].port] IN
       /\ socks_by_port' = MapPut(socks_by_port, rargs[t].port, sock)
       /\ sockbuf' = MapPut(sockbuf, sock.fileno, <<>>)
       /\ bound' = bound \cup {sock}
  /\ rpc' = [rpc EXCEPT ![t] = "byFileno"]
  /\ UNCHANGED <<devs, socks_by_fileno, epoll, lock, rargs, rerr, disp, calls,
                 firstReg, installs, rereg, nevents, nrecverrs>>

\* line 42: the socket is entered in the descriptor registry
RegisterByFileno(t) ==
  /\ rpc[t] = "byFileno"
  /\ LET sock == socks_by_port[rargs[t].port] IN
       socks_by_fileno' = MapPut(socks_by_fileno, sock.fileno, sock)
  /\ rpc' = [rpc EXCEPT ![t] = "epoll"]
  /\ UNCHANGED <<devs, socks_by_port, epoll, lock, rargs, rerr, disp, sockbuf,
                 calls, firstReg, installs, rereg, bound, nevents, nrecverrs>>

\* line 43: the descriptor is registered with epoll for input
RegisterEpoll(t) ==
  /\ rpc[t] = "epoll"
  /\ epoll' = epoll \cup {socks_by_port[rargs[t].port].fileno}
  /\ rpc' = [rpc EXCEPT ![t] = "dev"]
  /\ UNCHANGED <<devs, socks_by_port, socks_by_fileno, lock, rargs, rerr,
                 disp, sockbuf, calls, firstReg, installs, rereg, bound,
                 nevents, nrecverrs>>

\* a register that raises with the port already entered in the registry and
\* the lock still held
RegisterBindFailsHalfway(t) ==
  /\ rpc[t] = "bind"
  /\ rpc' = [rpc EXCEPT ![t] = "idle"]
  /\ rargs' = [rargs EXCEPT ![t] = NoArgs]
  /\ rerr' = "OSError"
  /\ socks_by_port' = MapPut(socks_by_port, rargs[t].port, NoSock)
  /\ UNCHANGED <<devs, lock, socks_by_fileno, epoll, disp, sockbuf, calls,
                 firstReg, installs, rereg, bound, nevents, nrecverrs>>

\* lines 38-39 when socket() or bind() raises OSError (the port is taken by
\* another process, say): the with block releases the lock, register raises
RegisterBindFails(t) ==
  /\ rpc[t] = "bind"
  /\ rpc' = [rpc EXCEPT ![t] = "idle"]
  /\ rargs' = [rargs EXCEPT ![t] = NoArgs]
  /\ rerr' = "OSError"
  /\ lock' = NoThread
  /\ UNCHANGED <<devs, socks_by_port, socks_by_fileno, epoll, disp, sockbuf,
                 calls, firstReg, installs, rereg, bound, nevents, nrecverrs>>

\* lines 44-45 and the end of the with block
RegisterDev(t) ==
  /\ rpc[t] = "dev"
  /\ firstReg' = IF rargs[t].ip \in DOMAIN firstReg THEN firstReg
                 ELSE MapPut(firstReg, rargs[t].ip, rargs[t].cb)
  /\ rereg' = IF /\ rargs[t].ip \in DOMAIN firstReg
                    /\ firstReg[rargs[t].ip] # rargs[t].cb
                 THEN rereg \cup {rargs[t].ip} ELSE rereg
  /\ IF DevMissing(rargs[t].ip)
     THEN /\ devs' = MapPut(devs, rargs[t].ip, rargs[t].cb)
          /\ installs' = [installs EXCEPT ![rargs[t].ip] = @ + 1]
     ELSE UNCHANGED <<devs, installs>>
  /\ rpc' = [rpc EXCEPT ![t] = "idle"]
  /\ rargs' = [rargs EXCEPT ![t] = NoArgs]
  /\ lock' = NoThread
  /\ rerr' = "none"
  /\ UNCHANGED <<socks_by_port, socks_by_fileno, epoll, disp, sockbuf, calls,
                 bound, nevents, nrecverrs>>


(***************************************************************************)
(* EmotivaNotifier.run, the dispatch thread                                *)
(***************************************************************************)
\* the orders in which epoll may report a set of ready descriptors
Orderings(S) ==
  {q \in [1..Cardinality(S) -> S] : \A i, j \in 1..Cardinality(S) :
                                       i # j => q[i] # q[j]}

\* descriptors epoll reports readable (registered for POLLIN at line 43)
Readable == {fd \in epoll : sockbuf[fd] # <<>>}

\* line 54: self._socks_by_fileno[fileno]
LookupSock(fileno) == socks_by_fileno[fileno]

\* a lookup that ignores the source address
LookupCallbackAnyDev(ip) == devs[CHOOSE a \in DOMAIN devs : TRUE]

\* line 58: self._devs[ip]
LookupCallback(ip) == devs[ip]

\* Emotiva._notify_handler, the callback sessions register: the error it
\* raises on the datagram, "none" when it decodes
NotifyHandler(data) == ParseResponse(data).err

\* the uncaught exception ends run: the thread is dead
Die(err) == [DispIdle EXCEPT !.pc = "dead", !.err = err]

\* the for loop at line 51 moves to the next event, or back to the poll
NextEvent ==
  IF Len(disp.events) > 1
  THEN [DispIdle EXCEPT !.pc = "lookupSock", !.events = Tail(disp.events)]
  ELSE DispIdle

\* line 50: poll(1) returns the ready descriptors (every one with POLLIN, the
\* only mask registered), or nothing after its timeout
Poll ==
  /\ disp.pc = "poll"
  /\ Readable # {}
  /\ \E q \in Orderings(Readable) :
       disp' = [disp EXCEPT !.pc = "lookupSock", !.events = q]
  /\ UNCHANGED <<devs, socks_by_port, socks_by_fileno, epoll, lock, rpc,
                 rargs, rerr, sockbuf, calls, firstReg, installs, rereg,
                 bound, nevents, nrecverrs>>

\* line 53: with self._lock, the dispatch thread acquires the lock
DispatchLockSock ==
  /\ disp.pc = "lookupSock"
  /\ CanAcquire(DispatchThread)
  /\ lock' = DispatchThread
  /\ disp' = [disp EXCEPT !.pc = "readSock"]
  /\ UNCHANGED <<devs, socks_by_port, socks_by_fileno, epoll, rpc, rargs,
                 rerr, sockbuf, calls, firstReg, installs, rereg, bound,
                 nevents, nrecverrs>>

\* a with block that ends without giving the lock back
WithExitKeeps == DispatchThread

\* the end of a with self._lock block of run (after line 54, after line 58):
\* the lock is released, whether the block ended normally or by an exception
WithExit == NoThread

\* line 54: the socket of the event's descriptor is read and the with block
\* ends
DispatchLookupSock ==
  /\ disp.pc = "readSock"
  /\ lock = DispatchThread
  /\ lock' = WithExit
  /\ disp' = IF Head(disp.events) \in DOMAIN socks_by_fileno
             THEN [disp EXCEPT !.pc = "recv",
                               !.sock = LookupSock(Head(disp.events))]
             ELSE Die("KeyError(fileno)")
  /\ UNCHANGED <<devs, socks_by_port, socks_by_fileno, epoll, rpc, rargs,
                 rerr, sockbuf, calls, firstReg, installs, rereg, bound,
                 nevents, nrecverrs>>

\* a loop that binds the newest datagram queued
RecvFromNewest(queue) == queue[Len(queue)]

\* sock.recvfrom(2048) on a datagram socket: the oldest datagram queued
RecvFrom(queue) == Head(queue)

\* line 55: recvfrom takes the oldest datagram off the socket's queue, and
\* data and ip are bound to what it returned
DispatchRecv ==
  /\ disp.pc = "recv"
  /\ sockbuf[disp.sock.fileno] # <<>>
  /\ LET dgram == RecvFrom(sockbuf[disp.sock.fileno]) IN
       disp' = [disp EXCEPT !.pc = "lookupCb", !.data = dgram.data,
                            !.ip = dgram.ip]
  /\ sockbuf' = [sockbuf EXCEPT ![disp.sock.fileno] = Tail(@)]
  /\ UNCHANGED <<devs, socks_by_port, socks_by_fileno, epoll, lock, rpc,
                 rargs, rerr, calls, firstReg, installs, rereg, bound,
                 nevents, nrecverrs>>

\* line 55: recvfrom raises OSError (the non-blocking socket has nothing to
\* return after all, or the socket has an error pending); nothing catches it
DispatchRecvFails ==
  /\ disp.pc = "recv"
  /\ nrecverrs < MaxRecvErrors
  /\ nrecverrs' = nrecverrs + 1
  /\ disp' = Die("OSError")
  /\ UNCHANGED <<devs, socks_by_port, socks_by_fileno, epoll, lock, rpc,
                 rargs, rerr, sockbuf, calls, firstReg, installs, rereg,
                 bound, nevents>>

\* line 57: with self._lock, the dispatch thread acquires the lock again
DispatchLockCb ==
  /\ disp.pc = "lookupCb"
  /\ CanAcquire(DispatchThread)
  /\ lock' = DispatchThread
  /\ disp' = [disp EXCEPT !.pc = "readCb"]
  /\ UNCHANGED <<devs, socks_by_port, socks_by_fileno, epoll, rpc, rargs,
                 rerr, sockbuf, calls, firstReg, installs, rereg, bound,
                 nevents, nrecverrs>>

\* line 58: the callback of the source address is read and the with block
\* ends; an address without a callback raises KeyError, which nothing catches
DispatchLookupCb ==
  /\ disp.pc = "readCb"
  /\ lock = DispatchThread
  /\ lock' = WithExit
  /\ disp' = IF disp.ip \in DOMAIN devs
             THEN [disp EXCEPT !.pc = "invoke", !.cb = LookupCallback(disp.ip)]
             ELSE Die("KeyError(ip)")
  /\ UNCHANGED <<devs, socks_by_port, socks_by_fileno, epoll, rpc, rargs,
                 rerr, sockbuf, calls, firstReg, installs, rereg, bound,
                 nevents, nrecverrs>>

\* the callback that calls register while it handles a datagram
RegisteringCallback == "cb2"

\* line 59, inside cb(data): the callback calls register, on the dispatch
\* thread (any number of times before it returns)
CallbackRegisters(ip, port, cb) ==
  /\ disp.pc = "invoke"
  /\ disp.cb = RegisteringCallback
  /\ RegisterEnter(DispatchThread, ip, port, cb)

\* line 59: the callback runs outside the lock and returns, or raises; what
\* it raises ends run
DispatchInvoke ==
  /\ disp.pc = "invoke"
  /\ rpc[DispatchThread] = "idle"
  /\ calls' = calls \cup {[cb |-> disp.cb, ip |-> disp.ip]}
  /\ disp' = IF NotifyHandler(disp.data) = "none"
             THEN NextEvent
             ELSE Die(NotifyHandler(disp.data))
  /\ UNCHANGED <<devs, socks_by_port, socks_by_fileno, epoll, lock, rpc,
                 rargs, rerr, sockbuf, firstReg, installs, rereg, bound,
                 nevents, nrecverrs>>

(***************************************************************************)
(* The network: a device at address ip sends a datagram to a notify port   *)
(* that has a bound socket.                                                *)
(***************************************************************************)
NotifyPayloads == {GoodPadded, BadUnclosed}

Arrive(fd, ip, data) ==
  /\ nevents < MaxEvents
  /\ fd \in DOMAIN sockbuf
  /\ sockbuf' = [sockbuf EXCEPT ![fd] = Append(@, [ip |-> ip, data |-> data])]
  /\ nevents' = nevents + 1
  /\ UNCHANGED <<devs, socks_by_port, socks_by_fileno, epoll, lock, rpc,
                 rargs, rerr, disp, calls, firstReg, installs, rereg, bound,
                 nrecverrs>>

(***************************************************************************)
(* Emotiva.format_request                                                  *)
(***************************************************************************)
\* the parameter names of the protocol, in the order sorted() gives them
AttrOrder == <<"ack", "value">>

\* an encoder that writes the value as it is
EscapeAttribRaw(value) == value

\* ElementTree._escape_attrib: &, <, >, the quote and the newline are written
\* as references, every other character as it is
EscapeAttrib(value) ==
  [n \in 1..Len(value) |->
     IF value[n] \in DOMAIN Entity THEN Entity[value[n]] ELSE value[n]]

\* ET.tostring on the attributes of an element: name="value" for each item,
\* sorted by name, the value escaped
SerializeAttrs(params) ==
  LET names == SelectSeq(AttrOrder, LAMBDA k : k \in DOMAIN params) IN
  [j \in 1..Len(names) |->
     [name |-> names[j], value |-> EscapeAttrib(params[names[j]])]]

\* lines 170-178: the header, then the root element holding one empty
\* element per command with its parameters as attributes; ET.tostring writes
\* an element without children as an empty-element tag.  The root is started
\* without attributes (line 172, which the TreeBuilder of Python 3.4, the
\* version setup.py names, accepts)
FormatRequest(pkt_type, req) ==
  <<XML_HEADER>> \o
  (IF req = <<>> THEN <<Empty(pkt_type, SerializeAttrs(EmptyMap))>>
   ELSE <<Open(pkt_type, SerializeAttrs(EmptyMap))>>
        \o [i \in 1..Len(req) |->
              Empty(req[i][1], SerializeAttrs(req[i][2]))]
        \o <<Close(pkt_type)>>)

\* lines 66-69: NOTIFY_EVENTS
NOTIFY_EVENTS ==
  <<"power", "zone2_power", "source", "mode", "volume", "audio_input",
    "audio_bitstream", "video_input", "video_format", "input_1", "input_2",
    "input_3", "input_4", "input_5", "input_6", "input_7", "input_8">>

\* what a Python function hands back: None, or a list
NoneValue == [kind |-> "None", items |-> <<>>]
ListValue(xs) == [kind |-> "list", items |-> xs]

(***************************************************************************)
(* Emotiva, the device session                                             *)
(***************************************************************************)
VARIABLES
  sess,       \* the session object: position of its owner and its fields
  sessXml,    \* the discovery response the session was constructed from
  ctrlIn,     \* datagrams queued in the control socket, oldest first
  ctrlSent,   \* history: datagrams sent on the control socket, in order
  sreplies,   \* history: the replies the running _send_request decoded
  nreplies,   \* datagrams the peer has sent to the control socket
  nrequests   \* _send_request calls made after connect

sessVars == <<sess, sessXml, ctrlIn, ctrlSent, sreplies, nreplies, nrequests>>

\* a field holding None (lines 76-81)
NonePort == -1

\* the discovery responses construction is tried on: an element is absent,
\* present without text (""), or present with the text given
Absent == "absent"
NameTexts == {Absent, "XMC-1"}
ModelTexts == {Absent, "XMC-1"}
VersionTexts == {Absent, "2.0"}
CtrlPortTexts == {Absent, "7002", "0", "abc"}
NotifyPortTexts == {Absent, "7003", "abc"}
InfoPortTexts == {Absent, "7004"}
SetupPortTexts == {Absent, "7100"}

NoControl ==
  [present |-> FALSE, version |-> Absent, controlPort |-> Absent,
   notifyPort |-> Absent, infoPort |-> Absent, setupPortTCP |-> Absent]

Transponders ==
  [name : NameTexts, model : ModelTexts,
   control : {NoControl} \cup
             [present : {TRUE}, version : VersionTexts,
              controlPort : CtrlPortTexts, notifyPort : NotifyPortTexts,
              infoPort : InfoPortTexts, setupPortTCP : SetupPortTexts]]

NoXml == [name |-> Absent, model |-> Absent, control |-> NoControl]

\* int(text) of an element's text: the error raised, or the number
IntOf(text) ==
  CASE text = "" -> [err |-> "TypeError", val |-> 0]
    [] text = "0" -> [err |-> "none", val |-> 0]
    [] text = "7002" -> [err |-> "none", val |-> 7002]
    [] text = "7003" -> [err |-> "none", val |-> 7003]
    [] text = "7004" -> [err |-> "none", val |-> 7004]
    [] text = "7100" -> [err |-> "none", val |-> 7100]
    [] OTHER -> [err |-> "ValueError", val |-> 0]

\* "if elem is not None: field = int(elem.text)"
PortField(text) ==
  IF text = Absent THEN [err |-> "none", val |-> NonePort] ELSE IntOf(text)

\* "if elem is not None: field = elem.text.strip()", default 'Unknown'
TextField(text) ==
  IF text = Absent THEN [err |-> "none", val |-> "Unknown"]
  ELSE IF text = "" THEN [err |-> "AttributeError", val |-> "Unknown"]
  ELSE [err |-> "none", val |-> text]

\* the first error in a sequence of results, "none" when there is none
RECURSIVE FirstErr(_)
FirstErr(rs) ==
  IF rs = <<>> THEN "none"
  ELSE IF Head(rs) # "none" THEN Head(rs) ELSE FirstErr(Tail(rs))

\* Emotiva.__parse_transponder: the statements run in order and the first
\* one that raises ends the call; ctrl.find on a missing control element
\* raises AttributeError
ParseTransponder(xml) ==
  LET c == xml.control
      cp == PortField(c.controlPort)
      np == PortField(c.notifyPort)
      ip == PortField(c.infoPort)
      sp == PortField(c.setupPortTCP)
  IN [err |-> FirstErr(<<TextField(xml.name).err, TextField(xml.model).err,
                        IF c.present THEN "none" ELSE "AttributeError",
                        cp.err, np.err, ip.err, sp.err>>),
      name |-> TextField(xml.name).val,
      model |-> TextField(xml.model).val,
      proto_ver |-> c.version,
      ctrl_port |-> cp.val,
      notify_port |-> np.val,
      info_port |-> ip.val,
      setup_port_tcp |-> sp.val]

\* "not field": None and 0 are both false
Falsy(port) == port = NonePort \/ port = 0

NoSession ==
  [pc |-> "new", err |-> "none", ip |-> "", name |-> "Unknown",
   model |-> "Unknown", proto_ver |-> Absent, ctrl_port |-> NonePort,
   notify_port |-> NonePort, info_port |-> NonePort,
   setup_port_tcp |-> NonePort, ctrl_sock |-> FALSE, result |-> NoneValue]

SessInit ==
  /\ sess = NoSession
  /\ sessXml = NoXml
  /\ ctrlIn = <<>>
  /\ ctrlSent = <<>>
  /\ sreplies = <<>>
  /\ nreplies = 0
  /\ nrequests = 0

\* the thread that owns the session, and the session's _notify_handler
SessThread == "t1"
SessHandler == "cb1"

\* Emotiva.__init__ (lines 72-85)
Construct(ip, xml) ==
  /\ sess.pc = "new"
  /\ sessXml' = xml
  /\ LET r == ParseTransponder(xml) IN
       sess' =
         IF r.err # "none"
         THEN [NoSession EXCEPT !.pc = "failed", !.err = r.err]
         ELSE IF Falsy(r.ctrl_port) \/ Falsy(r.notify_port)
         THEN [NoSession EXCEPT !.pc = "failed",
                                !.err = "InvalidTransponderResponse"]
         ELSE [NoSession EXCEPT !.pc = "constructed", !.ip = ip,
                 !.name = r.name, !.model = r.model,
                 !.proto_ver = r.proto_ver, !.ctrl_port = r.ctrl_port,
                 !.notify_port = r.notify_port, !.info_port = r.info_port,
                 !.setup_port_tcp = r.setup_port_tcp]
  /\ UNCHANGED <<ctrlIn, ctrlSent, sreplies, nreplies, nrequests>>

\* connect, lines 88-90: the control socket is created, bound and given its
\* timeout (the bind is taken to succeed)
ConnectBind ==
  /\ sess.pc = "constructed"
  /\ sess' = [sess EXCEPT !.pc = "bound", !.ctrl_sock = TRUE]
  /\ UNCHANGED <<sessXml, ctrlIn, ctrlSent, sreplies, nreplies, nrequests>>

\* connect, line 91: the call of register
ConnectRegister ==
  /\ sess.pc = "bound"
  /\ RegisterEnter(SessThread, sess.ip, sess.notify_port, SessHandler)
  /\ sess' = [sess EXCEPT !.pc = "registering"]
  /\ UNCHANGED <<sessXml, ctrlIn, ctrlSent, sreplies, nreplies, nrequests>>

\* connect, line 91: register raised, and connect with it
ConnectRegisterRaised ==
  /\ sess.pc = "registering"
  /\ rpc[SessThread] = "idle"
  /\ rerr # "none"
  /\ sess' = [sess EXCEPT !.pc = "raised", !.err = rerr]
  /\ UNCHANGED <<sessXml, ctrlIn, ctrlSent, sreplies, nreplies, nrequests>>

\* _send_request, line 95: the request is sent to (ip, control port)
SendTo(req) ==
  /\ ctrlSent' = Append(ctrlSent, [to |-> <<sess.ip, sess.ctrl_port>>,
                                   data |-> req])
  /\ sreplies' = <<>>
  /\ sess' = [sess EXCEPT !.pc = "recv"]

\* a connect that subscribes before it registers
SubscribeFirst ==
  /\ sess.pc = "bound"
  /\ SendTo(FormatRequest("emotivaSubscription",
                          [i \in 1..Len(NOTIFY_EVENTS) |->
                             <<NOTIFY_EVENTS[i], EmptyMap>>]))
  /\ UNCHANGED <<sessXml, ctrlIn, nreplies, nrequests>>

\* connect, line 92: register returned; _subscribe_events formats the
\* subscription (lines 110-111) and calls _send_request
Subscribe ==
  /\ sess.pc = "registering"
  /\ rpc[SessThread] = "idle"
  /\ rerr = "none"
  /\ SendTo(FormatRequest("emotivaSubscription",
                          [i \in 1..Len(NOTIFY_EVENTS) |->
                             <<NOTIFY_EVENTS[i], EmptyMap>>]))
  /\ UNCHANGED <<sessXml, ctrlIn, nreplies, nrequests>>

\* the requests a caller passes to _send_request
Requests ==
  {FormatRequest("emotivaControl",
                 <<<<"volume", [value |-> <<"1">>, ack |-> <<"yes">>]>>>>)}

\* a call of _send_request on the connected session
SendRequest(req) ==
  /\ sess.pc = "connected"
  /\ nrequests < MaxRequests
  /\ nrequests' = nrequests + 1
  /\ SendTo(req)
  /\ UNCHANGED <<sessXml, ctrlIn, nreplies>>

\* lines 99-101: recvfrom returns the oldest queued datagram and it is
\* decoded; what _parse_response raises is not caught and ends the call
SessRecv ==
  /\ sess.pc = "recv"
  /\ ctrlIn # <<>>
  /\ ctrlIn' = Tail(ctrlIn)
  /\ LET r == ParseResponse(Head(ctrlIn)) IN
       IF r.err = "none"
       THEN /\ sreplies' = Append(sreplies, r.doc)
            /\ UNCHANGED sess
       ELSE /\ sess' = [sess EXCEPT !.pc = "raised", !.err = r.err]
            /\ UNCHANGED sreplies
  /\ UNCHANGED <<sessXml, ctrlSent, nreplies, nrequests>>

\* what _send_request hands back: the function has no return statement
SendRequestReturn(replies) == NoneValue

\* lines 102-103: recvfrom times out on the empty socket, the loop breaks and
\* the function ends
SessTimeout ==
  /\ sess.pc = "recv"
  /\ ctrlIn = <<>>
  /\ sess' = [sess EXCEPT !.pc = "connected",
                          !.result = SendRequestReturn(sreplies)]
  /\ UNCHANGED <<sessXml, ctrlIn, ctrlSent, sreplies, nreplies, nrequests>>

\* the peer: a datagram is delivered to the bound control socket
ReplyPayloads == {GoodFlat, GoodPadded, BadUnclosed}

PeerReply(data) ==
  /\ sess.ctrl_sock
  /\ sess.pc # "raised"
  /\ nreplies < MaxReplies
  /\ nreplies' = nreplies + 1
  /\ ctrlIn' = Append(ctrlIn, data)
  /\ UNCHANGED <<sess, sessXml, ctrlSent, sreplies, nrequests>>

(***************************************************************************)
(* Emotiva.discover                                                        *)
(***************************************************************************)
VARIABLES
  disc,         \* the discover call: position, devices, result, error
  respIn,       \* datagrams queued in the response socket, oldest first
  bcasts,       \* history: datagrams sent on the request socket
  drecvd,       \* history: datagrams recvfrom returned to discover, in order
  ndiscovered   \* datagrams that arrived on the response socket

discVars == <<disc, respIn, bcasts, drecvd, ndiscovered>>

\* lines 64-65
DISCOVER_REQ_PORT == 7000
DISCOVER_RESP_PORT == 7001

DiscInit ==
  /\ disc = [pc |-> "idle", devices |-> <<>>, result |-> NoneValue,
             err |-> "none", timeouts |-> 0]
  /\ respIn = <<>>
  /\ bcasts = <<>>
  /\ drecvd = <<>>
  /\ ndiscovered = 0

\* lines 134-145: the sockets are made (taken to succeed), the ping is
\* broadcast, devices starts empty
DiscoverStart ==
  /\ disc.pc = "idle"
  /\ bcasts' = Append(bcasts, [to |-> <<"<broadcast>", DISCOVER_REQ_PORT>>,
                               data |-> FormatRequest("emotivaPing", <<>>)])
  /\ disc' = [disc EXCEPT !.pc = "recv", !.devices = <<>>]
  /\ UNCHANGED <<respIn, drecvd, ndiscovered>>

\* a discover that puts the newest response first
DevicesPrepend(devices, ip, resp) == <<<<ip, resp>>>> \o devices

\* line 150: devices.append((ip, resp))
DevicesAppend(devices, ip, resp) == Append(devices, <<ip, resp>>)

\* lines 148-150: a datagram is received and decoded, the pair appended; what
\* _parse_response raises is not caught and ends discover
DiscoverRecv ==
  /\ disc.pc = "recv"
  /\ respIn # <<>>
  /\ respIn' = Tail(respIn)
  /\ drecvd' = Append(drecvd, Head(respIn))
  /\ LET d == Head(respIn)
         r == ParseResponse(d.data)
     IN disc' = IF r.err = "none"
                THEN [disc EXCEPT !.devices = DevicesAppend(@, d.ip, r.doc)]
                ELSE [disc EXCEPT !.pc = "raised", !.err = r.err]
  /\ UNCHANGED <<bcasts, ndiscovered>>

\* a discover that forgets its return statement
DiscoverReturnNothing(devices) == NoneValue

\* line 153: return devices
DiscoverReturn(devices) == ListValue(devices)

\* lines 151-153: recvfrom times out on the empty socket, the loop breaks
DiscoverTimeout ==
  /\ disc.pc = "recv"
  /\ respIn = <<>>
  /\ disc' = [disc EXCEPT !.pc = "done", !.timeouts = @ + 1,
                          !.result = DiscoverReturn(disc.devices)]
  /\ UNCHANGED <<respIn, bcasts, drecvd, ndiscovered>>

\* the network: a device answers on the response port
DiscoveryPayloads == {GoodPadded, GoodFlat, BadUnclosed}

Respond(ip, data) ==
  /\ disc.pc = "recv"
  /\ ndiscovered < MaxDiscovered
  /\ ndiscovered' = ndiscovered + 1
  /\ respIn' = Append(respIn, [ip |-> ip, data |-> data])
  /\ UNCHANGED <<disc, bcasts, drecvd>>

(***************************************************************************)
(* The codec on its own: a caller formats a request and the bytes are      *)
(* handed to _parse_response.                                              *)
(***************************************************************************)
VARIABLES
  codec     \* the caller: position, arguments, the bytes, the decoded tree

codecVars == <<codec>>

PktTypes == {"emotivaControl", "emotivaSubscription"}
Commands == {"volume", "power"}
AttrNames == {AttrOrder[j] : j \in 1..Len(AttrOrder)}

\* parameter values: an ordinary one, and one made of the characters XML
\* treats specially
Values == {<<"yes">>, <<Lt, Amp, "1", Quot, Lf, Gt>>}

\* the dicts passed as parameters: any of the names, each with a value
ParamMaps == UNION {[names -> Values] : names \in SUBSET AttrNames}

\* the lists passed as req: up to MaxCommands (command, parameters) tuples
Reqs ==
  UNION {[1..n -> Commands \X ParamMaps] : n \in 0..MaxCommands}

NoCodec ==
  [pc |-> "idle", pkt_type |-> "", req |-> <<>>, data |-> <<>>,
   err |-> "none", root |-> NoTree]

CodecInit == codec = NoCodec

\* format_request(pkt_type, req), lines 162-178
CodecFormat(pkt_type, req) ==
  /\ codec.pc = "idle"
  /\ codec' = [NoCodec EXCEPT !.pc = "formatted", !.pkt_type = pkt_type,
                              !.req = req,
                              !.data = FormatRequest(pkt_type, req)]

\* _parse_response(data) on the bytes format_request returned, lines 155-160
CodecParse ==
  /\ codec.pc = "formatted"
  /\ LET r == ParseResponse(codec.data) IN
       codec' = [codec EXCEPT !.pc = "parsed", !.err = r.err,
                              !.root = r.root]

(***************************************************************************)
(* A record of the dispatch loop's traffic, kept by the specification that *)
(* watches the order of deliveries.                                        *)
(***************************************************************************)
VARIABLES
  recvLog,    \* history: the datagrams that left the sockets at line 55
  delivLog    \* history: the datagrams passed to a callback at line 59

logVars == <<recvLog, delivLog>>

LogInit ==
  /\ recvLog = <<>>
  /\ delivLog = <<>>

\* line 55: the datagram at the head of the socket's queue leaves it
LogRecv ==
  /\ recvLog' = Append(recvLog, Head(sockbuf[disp.sock.fileno]))
  /\ UNCHANGED delivLog

\* line 59: cb(data) for the datagram whose source address was looked up
LogInvoke ==
  /\ delivLog' = Append(delivLog, [ip |-> disp.ip, data |-> disp.data])
  /\ UNCHANGED recvLog

(***************************************************************************)
(* Specifications                                                          *)
(***************************************************************************)
vars == <<muxVars, sessVars, discVars, codecVars, logVars>>

Init == MuxInit /\ SessInit /\ DiscInit /\ CodecInit /\ LogInit

OnlyMux == UNCHANGED <<sessVars, discVars, codecVars, logVars>>
OnlySess == UNCHANGED <<muxVars, discVars, codecVars, logVars>>
OnlyDisc == UNCHANGED <<muxVars, sessVars, codecVars, logVars>>
OnlyCodec == UNCHANGED <<muxVars, sessVars, discVars, logVars>>
OnlyMuxLogged == UNCHANGED <<sessVars, discVars, codecVars>>

\* the multiplexer: threads calling register, the dispatch thread, the network
MuxNext ==
  \/ \E t \in Threads, ip \in Addrs, port \in Ports, cb \in Callbacks :
       RegisterEnter(t, ip, port, cb) /\ OnlyMux
  \/ \E t \in Callers : RegisterNewSocket(t) /\ OnlyMux
  \/ \E t \in Callers : RegisterByFileno(t) /\ OnlyMux
  \/ \E t \in Callers : RegisterEpoll(t) /\ OnlyMux
  \/ \E t \in Callers : RegisterBindFails(t) /\ OnlyMux
  \/ \E t \in Callers : RegisterDev(t) /\ OnlyMux
  \/ Poll /\ OnlyMux
  \/ DispatchLockSock /\ OnlyMux
  \/ DispatchLookupSock /\ OnlyMux
  \/ DispatchRecv /\ OnlyMux
  \/ DispatchRecvFails /\ OnlyMux
  \/ DispatchLockCb /\ OnlyMux
  \/ DispatchLookupCb /\ OnlyMux
  \/ \E ip \in Addrs, port \in Ports, cb \in Callbacks :
       CallbackRegisters(ip, port, cb) /\ OnlyMux
  \/ DispatchInvoke /\ OnlyMux
  \/ \E fd \in DOMAIN sockbuf, ip \in Addrs, data \in NotifyPayloads :
       Arrive(fd, ip, data) /\ OnlyMux

SpecMux == Init /\ [][MuxNext]_vars

\* the multiplexer with its traffic recorded
OrderPayloads == {GoodPadded, GoodFlat}

OrderNext ==
  \/ \E t \in Threads, ip \in Addrs, port \in Ports, cb \in Callbacks :
       RegisterEnter(t, ip, port, cb) /\ OnlyMux
  \/ \E t \in Callers : RegisterNewSocket(t) /\ OnlyMux
  \/ \E t \in Callers : RegisterByFileno(t) /\ OnlyMux
  \/ \E t \in Callers : RegisterEpoll(t) /\ OnlyMux
  \/ \E t \in Callers : RegisterBindFails(t) /\ OnlyMux
  \/ \E t \in Callers : RegisterDev(t) /\ OnlyMux
  \/ Poll /\ OnlyMux
  \/ DispatchLockSock /\ OnlyMux
  \/ DispatchLookupSock /\ OnlyMux
  \/ DispatchRecv /\ LogRecv /\ OnlyMuxLogged
  \/ DispatchRecvFails /\ OnlyMux
  \/ DispatchLockCb /\ OnlyMux
  \/ DispatchLookupCb /\ OnlyMux
  \/ \E ip \in Addrs, port \in Ports, cb \in Callbacks :
       CallbackRegisters(ip, port, cb) /\ OnlyMux
  \/ DispatchInvoke /\ LogInvoke /\ OnlyMuxLogged
  \/ \E fd \in DOMAIN sockbuf, ip \in Addrs, data \in OrderPayloads :
       Arrive(fd, ip, data) /\ OnlyMux

SpecOrder == Init /\ [][OrderNext]_vars

\* one session: construction, connect (whose register call the session's
\* thread makes), requests, and the peer's replies
SessNext ==
  \/ \E ip \in Addrs, xml \in Transponders : Construct(ip, xml) /\ OnlySess
  \/ ConnectBind /\ OnlySess
  \/ ConnectRegister /\ UNCHANGED <<discVars, codecVars, logVars>>
  \/ sess.pc = "registering" /\ RegisterNewSocket(SessThread) /\ OnlyMux
  \/ sess.pc = "registering" /\ RegisterByFileno(SessThread) /\ OnlyMux
  \/ sess.pc = "registering" /\ RegisterEpoll(SessThread) /\ OnlyMux
  \/ sess.pc = "registering" /\ RegisterBindFails(SessThread) /\ OnlyMux
  \/ sess.pc = "registering" /\ RegisterDev(SessThread) /\ OnlyMux
  \/ ConnectRegisterRaised /\ OnlySess
  \/ Subscribe /\ OnlySess
  \/ \E req \in Requests : SendRequest(req) /\ OnlySess
  \/ SessRecv /\ OnlySess
  \/ SessTimeout /\ OnlySess
  \/ \E data \in ReplyPayloads : PeerReply(data) /\ OnlySess

SpecSession == Init /\ [][SessNext]_vars

\* one discover call and the devices answering it
DiscNext ==
  \/ DiscoverStart /\ OnlyDisc
  \/ DiscoverRecv /\ OnlyDisc
  \/ DiscoverTimeout /\ OnlyDisc
  \/ \E ip \in Addrs, data \in DiscoveryPayloads : Respond(ip, data) /\ OnlyDisc

SpecDiscover == Init /\ [][DiscNext]_vars

\* one request formatted and parsed back
CodecNext ==
  \/ \E pkt_type \in PktTypes, req \in Reqs :
       CodecFormat(pkt_type, req) /\ OnlyCodec
  \/ CodecParse /\ OnlyCodec

SpecCodec == Init /\ [][CodecNext]_vars

(***************************************************************************)
(* Properties of the multiplexer                                           *)
(***************************************************************************)
Sources == {c.ip : c \in calls}

\* C1: every datagram the dispatch loop hands to a callback is handed to the
\* callback registered for the datagram's source address, and to no callback
\* registered (differently) for another address, whatever sockets they share.
C1_RoutedBySource ==
  \A c \in calls :
    /\ c.ip \in DOMAIN devs
    /\ c.cb = devs[c.ip]
    /\ \A b \in (DOMAIN devs) \ {c.ip} : devs[b] # devs[c.ip] => c.cb # devs[b]

\* two devices with different callbacks share the only listening socket and
\* a datagram of each has been dispatched
C1_Witness ==
  /\ DOMAIN devs = Addrs
  /\ devs["ipA"] # devs["ipB"]
  /\ Cardinality(bound) = 1
  /\ Sources = Addrs

\* C2: the callback invoked for a datagram is the one the first register call
\* for its source address passed; a different callback passed by a later
\* register call for that address is never invoked.
C2_FirstRegistrationWins ==
  \A c \in calls : c.ip \in DOMAIN firstReg /\ c.cb = firstReg[c.ip]

\* the address was registered again with another callback, and after that the
\* dispatch loop looked its callback up and is about to invoke it
C2_Witness ==
  /\ disp.pc = "invoke"
  /\ disp.ip \in rereg
  /\ disp.cb = firstReg[disp.ip]

\* C3 (as claimed): a datagram from an address without a callback is dropped
\* and the dispatch loop keeps running; it never ends with the KeyError of the
\* callback lookup.
C3_UnregisteredDropped == ~(disp.pc = "dead" /\ disp.err = "KeyError(ip)")

\* C4: at most one socket is created and bound for each port, and at most one
\* callback is ever written to the registry for each address.
C4_OneSocketPerPort ==
  /\ \A p \in Ports : Cardinality({sk \in bound : sk.port = p}) <= 1
  /\ \A a \in Addrs : installs[a] <= 1

\* one address was registered twice, with different callbacks, while a single
\* socket was ever made (so both calls named its port), and no call is running
C4_Witness ==
  /\ rereg # {}
  /\ Cardinality(bound) = 1
  /\ \A t \in Threads : rpc[t] = "idle"

\* C5 (as claimed): an error raised by recvfrom does not end the dispatch
\* loop.
C5_RecvErrorSurvived == ~(disp.pc = "dead" /\ disp.err = "OSError")

\* C6 (as claimed): a datagram the session handler cannot decode does not end
\* the dispatch loop; the malformed-response error stays inside it.
C6_DecodeErrorContained == ~(disp.pc = "dead" /\ disp.err = "ParseError")


\* C14: the dispatch loop does not hold the lock while it is at recvfrom or
\* while the callback runs: it holds it only between acquiring it and the
\* lookup, or inside a register call the callback makes.  So a callback
\* that calls register on the dispatch thread can take the lock whenever no
\* other thread holds it, and whoever holds the lock can always take the step
\* that leads to its release: no state is a deadlock on the lock.
C14_NoLockAcrossRecvOrCallback ==
  /\ disp.pc = "recv" => lock # DispatchThread
  /\ (disp.pc = "invoke" /\ rpc[DispatchThread] = "idle") =>
       lock # DispatchThread
  /\ lock = DispatchThread <=>
       \/ disp.pc \in {"readSock", "readCb"}
       \/ rpc[DispatchThread] \in UnderLock
  /\ ( /\ disp.pc = "invoke"
       /\ disp.cb = RegisteringCallback
       /\ rpc[DispatchThread] = "idle"
       /\ lock = NoThread
       /\ nevents < MaxEvents ) =>
       ENABLED (\E ip \in Addrs, port \in Ports, cb \in Callbacks :
                  CallbackRegisters(ip, port, cb))
  /\ lock # NoThread =>
       \/ /\ lock = DispatchThread
          /\ disp.pc = "readSock"
          /\ ENABLED DispatchLookupSock
       \/ /\ lock = DispatchThread
          /\ disp.pc = "readCb"
          /\ ENABLED DispatchLookupCb
       \/ rpc[lock] = "bind" /\ ENABLED RegisterNewSocket(lock)
       \/ rpc[lock] = "byFileno" /\ ENABLED RegisterByFileno(lock)
       \/ rpc[lock] = "epoll" /\ ENABLED RegisterEpoll(lock)
       \/ rpc[lock] = "dev" /\ ENABLED RegisterDev(lock)

\* the callback, running on the dispatch thread, called register for a port
\* without a socket, got the lock, made the socket and is about to install
\* the callback and release
C14_Witness ==
  /\ disp.pc = "invoke"
  /\ rpc[DispatchThread] = "dev"
  /\ lock = DispatchThread
  /\ rargs[DispatchThread].port \in DOMAIN socks_by_port
  /\ Cardinality(bound) = 2

\* the threads between acquiring the lock and releasing it: inside
\* register after line 36, or inside one of run's with blocks
InCritical ==
  {t \in Callers : rpc[t] \in UnderLock} \cup
  (IF disp.pc \in {"readSock", "readCb"} THEN {DispatchThread} ELSE {})

\* C15: a thread that is where register or run reads or writes a registry
\* holds the lock, and a registry changes only in a step of the thread that
\* holds the lock; at most one thread is in such a place at a time, so when
\* the dispatch loop reads a registry no register call is between its socket
\* step and its callback step.
C15_RegistriesUnderLock ==
  /\ [](/\ \A t \in Callers : rpc[t] \in UnderLock => lock = t
        /\ disp.pc \in {"readSock", "readCb"} => lock = DispatchThread
        /\ Cardinality(InCritical) <= 1
        /\ disp.pc \in {"readSock", "readCb"} =>
             \A t \in Callers : rpc[t] = "idle")
  /\ [][(\/ devs' # devs
         \/ socks_by_port' # socks_by_port
         \/ socks_by_fileno' # socks_by_fileno) =>
          (lock \in Callers /\ rpc[lock] \in UnderLock)]_vars

\* a register call has made the socket of its port and not yet installed
\* the callback, a datagram has arrived on that socket and poll has reported
\* it: the dispatch loop stands before its with block until register is done
C15_Witness ==
  \E t \in Threads :
    /\ rpc[t] = "dev"
    /\ lock = t
    /\ devs = EmptyMap
    /\ rargs[t].port \in DOMAIN socks_by_port
    /\ disp.pc = "lookupSock"
    /\ Head(disp.events) = socks_by_port[rargs[t].port].fileno

\* the datagrams of a log that came from one address, in the log's order
From(log, ip) == SelectSeq(log, LAMBDA d : d.ip = ip)

IsPrefix(a, b) == Len(a) <= Len(b) /\ SubSeq(b, 1, Len(a)) = a

\* C16: for every device, the datagrams passed to its callback are, in the
\* same order and without gaps, the datagrams from its address that the
\* sockets returned to the dispatch loop (all of them but the one still in
\* the loop's hands, or those after the one run died on).
C16_DeliveredInRecvOrder ==
  \A ip \in Addrs : IsPrefix(From(delivLog, ip), From(recvLog, ip))

\* two datagrams with different payloads came from one device and both were
\* passed to its callback
C16_Witness ==
  \E ip \in Addrs :
    /\ Len(From(delivLog, ip)) = 2
    /\ From(delivLog, ip)[1].data # From(delivLog, ip)[2].data
    /\ disp.pc = "poll"

\* datagrams from an address with a callback that wait in a socket
StrandedFds ==
  {fd \in DOMAIN sockbuf :
     \E i \in 1..Len(sockbuf[fd]) : sockbuf[fd][i].ip \in DOMAIN devs}

\* C18 (as claimed): the dispatch loop never stops, so a datagram from an
\* address with a registered callback, once queued on a listening socket, is
\* never left behind by a dispatch thread that has ended: whatever arrived
\* before it, the loop is still there to pass it to the callback.
C18_NeverStranded == ~(disp.pc = "dead" /\ StrandedFds # {})

\* C19: a register call that ends in the socket step (socket() or bind()
\* failed) ends with the error, gives the lock back and leaves the port
\* registry, the descriptor registry, the polled set and the callback
\* registry as they were; after it any thread can enter register again.
C19_FailedBindLeavesNoTrace ==
  /\ [][\A t \in Callers :
         (rpc[t] = "bind" /\ rpc'[t] = "idle") =>
           /\ rerr' = "OSError"
           /\ lock = t /\ lock' = NoThread
           /\ UNCHANGED <<socks_by_port, socks_by_fileno, epoll, devs,
                          sockbuf, bound>>]_vars
  /\ []((rerr = "OSError" /\ lock = NoThread /\ nevents < MaxEvents) =>
          \A t \in Threads :
            rpc[t] = "idle" =>
              ENABLED (\E ip \in Addrs, port \in Ports, cb \in Callbacks :
                         RegisterEnter(t, ip, port, cb)))

\* a register call failed at its socket step before anything was registered,
\* and a later call has taken the lock and stands at its own socket step
C19_Witness ==
  /\ rerr = "OSError"
  /\ socks_by_port = EmptyMap
  /\ socks_by_fileno = EmptyMap
  /\ epoll = {}
  /\ devs = EmptyMap
  /\ \E t \in Threads : rpc[t] = "bind" /\ lock = t

\* the sockets a registry holds
SocksOf(registry) == {registry[k] : k \in DOMAIN registry}

\* every entry there is still there, unchanged, after the step
Kept(before, after) ==
  \A k \in DOMAIN before : k \in DOMAIN after /\ after[k] = before[k]

\* C20: whenever the lock is free, the port registry and the descriptor
\* registry hold the same sockets, each under its own port and descriptor,
\* and the polled set is the set of their descriptors; so a descriptor poll
\* reports resolves in the dispatch loop's lookup, which never ends in a
\* KeyError.  No step removes or replaces a socket or a callback, or takes a
\* descriptor out of the polled set.
C20_RegistriesAgree ==
  /\ [](lock = NoThread =>
          /\ SocksOf(socks_by_port) = SocksOf(socks_by_fileno)
          /\ \A p \in DOMAIN socks_by_port : socks_by_port[p].port = p
          /\ \A f \in DOMAIN socks_by_fileno : socks_by_fileno[f].fileno = f
          /\ epoll = DOMAIN socks_by_fileno
          /\ Readable \subseteq DOMAIN socks_by_fileno
          /\ disp.pc = "lookupSock" =>
               Head(disp.events) \in DOMAIN socks_by_fileno)
  /\ [](disp.err # "KeyError(fileno)")
  /\ [][/\ Kept(socks_by_port, socks_by_port')
        /\ Kept(socks_by_fileno, socks_by_fileno')
        /\ Kept(devs, devs')
        /\ epoll \subseteq epoll']_vars

\* both ports have a socket, poll reported one of them readable while
\* nobody held the lock, and the lookup gave the loop its socket
C20_Witness ==
  /\ lock = NoThread
  /\ DOMAIN socks_by_port = Ports
  /\ Cardinality(epoll) = 2
  /\ disp.pc = "recv"
  /\ disp.sock = socks_by_fileno[Head(disp.events)]

(***************************************************************************)
(* Properties of the device session                                        *)
(***************************************************************************)
\* C7 (as claimed): when _send_request ends after a timeout without having
\* received a reply, it has raised nothing and hands back an empty list.
C7_SilentPeerEmptyList ==
  (sess.pc = "connected" /\ sreplies = <<>>) =>
    (sess.err = "none" /\ sess.result = ListValue(<<>>))

\* C8 (as claimed): when _send_request ends, it has sent its payload once, to
\* (address, control port), and hands back the list of the replies decoded
\* before the timeout, in arrival order.
C8_AllRepliesReturned ==
  sess.pc = "connected" =>
    /\ Len(ctrlSent) = nrequests + 1
    /\ ctrlSent[Len(ctrlSent)].to = <<sess.ip, sess.ctrl_port>>
    /\ sess.result = ListValue(sreplies)

PortElementAbsent(xml) ==
  \/ ~xml.control.present
  \/ xml.control.controlPort = Absent
  \/ xml.control.notifyPort = Absent

\* C9 (as claimed): construction from a discovery response without a control
\* port element or without a notify port element fails, and the error is
\* InvalidTransponderResponse.
C9_MissingPortInvalid ==
  (sess.pc # "new" /\ PortElementAbsent(sessXml)) =>
    (sess.pc = "failed" /\ sess.err = "InvalidTransponderResponse")

\* C17: connect binds the control socket, then registers, then sends the
\* subscription: a register call of the session finds the control socket
\* bound, and once the subscription request (the first datagram sent, naming
\* the fixed events) is out, the notify port has a socket in the registry,
\* polled for input, and the session's address has a callback, so a
\* notification the subscription provokes comes from a registered address.
C17_RegisteredBeforeSubscribe ==
  /\ (rpc[SessThread] # "idle" \/ devs # EmptyMap) => sess.ctrl_sock
  /\ ctrlSent # <<>> =>
       /\ sess.ctrl_sock
       /\ ctrlSent[1] =
            [to |-> <<sess.ip, sess.ctrl_port>>,
             data |-> FormatRequest("emotivaSubscription",
                                    [i \in 1..Len(NOTIFY_EVENTS) |->
                                       <<NOTIFY_EVENTS[i], EmptyMap>>])]
       /\ sess.notify_port \in DOMAIN socks_by_port
       /\ socks_by_port[sess.notify_port].fileno \in epoll
       /\ sess.ip \in DOMAIN devs
       /\ devs[sess.ip] = SessHandler
       /\ rpc[SessThread] = "idle"

\* the subscription request has just been sent, nothing else, and the call
\* waits for replies
C17_Witness ==
  /\ sess.pc = "recv"
  /\ Len(ctrlSent) = 1
  /\ sess.ip \in DOMAIN devs
  /\ Cardinality(bound) = 1

(***************************************************************************)
(* Properties of discovery                                                 *)
(***************************************************************************)
\* C10: discover with no device answering ends at the first receive timeout:
\* the timeout can fire whenever the response socket is empty, the first
\* timeout ends the call, and with no datagram received the call has raised
\* nothing and hands back the empty list.
C10_NoResponderEmpty ==
  /\ (disc.pc = "recv" /\ respIn = <<>>) => ENABLED DiscoverTimeout
  /\ disc.timeouts <= 1
  /\ disc.timeouts = 1 => disc.pc = "done"
  /\ ndiscovered = 0 =>
       /\ disc.pc # "raised"
       /\ disc.err = "none"
       /\ disc.pc = "done" => disc.result = ListValue(<<>>)

\* the ping went out, nothing arrived, and discover has returned
C10_Witness ==
  /\ disc.pc = "done"
  /\ Len(bcasts) = 1
  /\ ndiscovered = 0
  /\ disc.timeouts = 1

\* the (source address, decoded response) pairs of the datagrams recvfrom
\* returned, in the order it returned them
ReceivedPairs ==
  [i \in 1..Len(drecvd) |-> <<drecvd[i].ip, ParseResponse(drecvd[i].data).doc>>]

\* C11: discover broadcasts exactly one ping, to the discovery request port,
\* and when it returns it hands back exactly the (source address, decoded
\* response) pairs of the datagrams received before the first receive
\* timeout, in arrival order; the wait restarts after every receive: while
\* the call has not timed out it is still receiving, however many datagrams
\* it has taken, and the timeout fires only on an empty socket.
C11_DiscoverReturnsArrivals ==
  /\ disc.pc # "idle" =>
       /\ Len(bcasts) = 1
       /\ bcasts[1] = [to |-> <<"<broadcast>", DISCOVER_REQ_PORT>>,
                       data |-> FormatRequest("emotivaPing", <<>>)]
  /\ disc.pc = "done" =>
       /\ disc.result = ListValue(ReceivedPairs)
       /\ disc.timeouts = 1
       /\ Len(drecvd) + Len(respIn) = ndiscovered
  /\ disc.pc = "recv" => disc.timeouts = 0
  /\ (disc.pc = "recv" /\ respIn # <<>>) => ~ENABLED DiscoverTimeout

\* two devices answered one after the other, discover took the second
\* datagram after the first, and returned both
C11_Witness ==
  /\ disc.pc = "done"
  /\ Len(drecvd) = 2
  /\ drecvd[1].ip # drecvd[2].ip
  /\ Len(disc.result.items) = 2

\* C13 (as claimed): a datagram that fails to decode does not abort
\* discover; the call never ends with the decoder's error, it goes on to the
\* timeout and returns the well-formed responses around the bad one.
C13_BadDatagramSkipped ==
  /\ ~(disc.pc = "raised" /\ disc.err = "ParseError")
  /\ disc.pc = "done" =>
       Len(disc.result.items) =
         Cardinality({i \in 1..Len(drecvd) :
                        ParseResponse(drecvd[i].data).err = "none"})

====
